---- MODULE Spec2Model ----
(***************************************************************************)
(* The aws_fsx_ontap_storage_virtual_machine data source:                  *)
(* internal/service/fsx/ontap_storage_virtual_machine_data_source.go.      *)
(*                                                                         *)
(* One invocation of dataSourceONTAPStorageVirtualMachineRead is modelled  *)
(* as one action.  The configuration (id, filter), the provider meta       *)
(* (default-tags and ignore-tags configuration) and the remote FSx service *)
(* (the storage virtual machines it holds) are the inputs, drawn in Init.  *)
(*                                                                         *)
(* Go values are modelled with their nil-ness kept:                        *)
(*   *T       [nil |-> BOOLEAN, v |-> T]                                   *)
(*   []T      [nil |-> BOOLEAN, elems |-> Seq(T)]                          *)
(*   map      a function whose DOMAIN is the set of keys                   *)
(***************************************************************************)
EXTENDS Integers, Sequences, FiniteSets, TLC

VARIABLES
    cfgId,              \* d.Get("id") of the configuration; "" when not given
    cfgFilter,          \* d.Get("filter"): a set of [name, values] blocks
    defaultTagsConfig,  \* meta.DefaultTagsConfig
    ignoreTagsConfig,   \* meta.IgnoreTagsConfig
    remote,             \* the storage virtual machines the FSx service holds
    pc,                 \* "start" before the read, "done" after it
    input,              \* the DescribeStorageVirtualMachinesInput handed to the lookup
    lookupErr,          \* err of findStorageVirtualMachine ("" is a nil error)
    found,              \* {} or {svm}: the *fsx.StorageVirtualMachine the lookup returned
    dId,                \* d.Id()
    dWrites,            \* the d.SetId and d.Set calls that took effect, in order: [key, val]
    setFailed,          \* the attribute whose d.Set returned an error; "" when none did
    ret,                \* "none" | "diags" (the handler returned) | "panic"
    diags               \* the diag.Diagnostics returned

vars == << cfgId, cfgFilter, defaultTagsConfig, ignoreTagsConfig, remote, pc,
           input, lookupErr, found, dId, dWrites, setFailed, ret, diags >>

----------------------------------------------------------------------------
(* Bounds of the model *)

\* storage virtual machines the remote service may hold: svm-1 .. svm-NumSVMs
NumSVMs == 2
\* creation timestamps: seconds 0 .. NumTimes-1 after 1970-01-01T00:00:00Z
NumTimes == 2

----------------------------------------------------------------------------
(* Go values *)

NilString == [nil |-> TRUE, v |-> ""]
String(s) == [nil |-> FALSE, v |-> s]
NilTime == [nil |-> TRUE, v |-> 0]
Time(t) == [nil |-> FALSE, v |-> t]
NilSlice == [nil |-> TRUE, elems |-> << >>]
Slice(seq) == [nil |-> FALSE, elems |-> seq]
EmptyMap == << >>

\* aws.StringValue: the pointed-to string, "" for a nil pointer
StringValue(p) == IF p.nil THEN "" ELSE p.v

\* strings.HasPrefix
HasPrefix(s, prefix) ==
    /\ Len(s) >= Len(prefix)
    /\ SubSeq(s, 1, Len(prefix)) = prefix

RECURSIVE SetToSeq(_)
\* schema.Set.List(): the elements of a set, each once, in a fixed order
SetToSeq(S) ==
    IF S = {} THEN << >>
    ELSE LET x == CHOOSE y \in S : TRUE IN << x >> \o SetToSeq(S \ {x})

\* time.Time.Format(time.RFC3339) of a UTC time t seconds after the epoch (t < 60)
FormatRFC3339(t) ==
    "1970-01-01T00:00:" \o (IF t < 10 THEN "0" ELSE "") \o ToString(t) \o "Z"

----------------------------------------------------------------------------
(* The schema *)

\* every key of the Schema map of dataSourceONTAPStorageVirtualMachine
SchemaAttributes ==
    { "active_directory_configuration", "arn", "creation_time", "endpoints",
      "file_system_id", "filter", "id", "lifecycle_status",
      "lifecycle_transition_reason", "name", "subtype", "tags", "uuid" }

\* the attributes whose d.Set error the handler checks
CheckedAttributes ==
    { "active_directory_configuration", "endpoints",
      "lifecycle_transition_reason", "tags" }

\* the order of the d.Set calls of the handler
WriteOrder ==
    << "active_directory_configuration", "arn", "creation_time", "endpoints",
       "file_system_id", "lifecycle_status", "lifecycle_transition_reason",
       "name", "subtype", "uuid", "tags" >>

----------------------------------------------------------------------------
(* The inputs: configuration, provider meta, remote service *)

SVMId(i) == "svm-" \o ToString(i)
FileSystemIds == { "fs-1", "fs-2" }
\* svm-1 and svm-2 live in fs-1 (so that a file-system filter can be
\* ambiguous), every further one in fs-2
FileSystemOf(i) == IF i <= 2 THEN "fs-1" ELSE "fs-2"

Tag(k, v) == [Key |-> k, Value |-> v]

\* the tag lists a remote storage virtual machine may carry
TagLists ==
    { << >>,
      << Tag("env", "prod"), Tag("tmp:build", "7"), Tag("Name", "a") >>,
      << Tag("env", "dev"), Tag("aws:createdBy", "x"), Tag("owner", "ops"),
         Tag("team", "storage") >> }

\* *fsx.LifecycleTransitionReason: nil, or a struct with a Message *string
NoReason == [nil |-> TRUE, Message |-> NilString]
Reason(msg) == [nil |-> FALSE, Message |-> msg]
LifecycleTransitionReasons ==
    { NoReason, Reason(NilString), Reason(String("")), Reason(String("SVM failed")) }

\* *fsx.SvmActiveDirectoryConfiguration
NoActiveDirectory == [nil |-> TRUE, NetBiosName |-> NilString]
ActiveDirectory == [nil |-> FALSE, NetBiosName |-> String("CORP")]

\* *fsx.SvmEndpoints
NoEndpoints == [nil |-> TRUE, Management |-> NilString]
Endpoints == [nil |-> FALSE, Management |-> String("mgmt.example.com")]

\* the nested structures a machine may carry: each one absent in one shape
\* and present in the other
NestedShapes ==
    { [ad |-> NoActiveDirectory, ep |-> Endpoints],
      [ad |-> ActiveDirectory, ep |-> NoEndpoints] }

CreationTimes == { NilTime } \cup { Time(t) : t \in 0 .. (NumTimes - 1) }

\* *fsx.StorageVirtualMachine
StorageVirtualMachine(i, ct, ltr, tags, ad, ep) ==
    [ StorageVirtualMachineId      |-> String(SVMId(i)),
      ActiveDirectoryConfiguration |-> ad,
      CreationTime                 |-> ct,
      Endpoints                    |-> ep,
      FileSystemId                 |-> String(FileSystemOf(i)),
      Lifecycle                    |-> String(IF ltr.nil THEN "CREATED" ELSE "MISCONFIGURED"),
      LifecycleTransitionReason    |-> ltr,
      Name                         |-> String("vm" \o ToString(i)),
      ResourceARN                  |-> String("arn:aws:fsx:::storage-virtual-machine/" \o SVMId(i)),
      Subtype                      |-> String("DEFAULT"),
      UUID                         |-> String("uuid-" \o ToString(i)),
      Tags                         |-> tags ]

\* svm-1 takes every shape; the others one fixed shape each
Shapes(i) ==
    IF i = 1
    THEN { StorageVirtualMachine(1, ct, ltr, tags, n.ad, n.ep) :
             ct \in CreationTimes, ltr \in LifecycleTransitionReasons,
             tags \in TagLists, n \in NestedShapes }
    ELSE { StorageVirtualMachine(i, Time(0), NoReason, << Tag("Name", "b") >>,
                                 NoActiveDirectory, NoEndpoints) }

\* the remote service holds at most one machine per identifier
Remotes ==
    { first \cup rest :
        first \in { {} } \cup { {s} : s \in Shapes(1) },
        rest \in SUBSET (UNION { Shapes(i) : i \in 2 .. NumSVMs }) }

ConfigIds == { "" } \cup { SVMId(i) : i \in 1 .. NumSVMs }

\* a filter block of the configuration
FilterBlock(n, vs) == [name |-> n, values |-> vs]
ConfigFilters == SUBSET { FilterBlock("file-system-id", {fs}) : fs \in FileSystemIds }

\* tftags.DefaultConfig.Tags
DefaultTagsConfigs ==
    { EmptyMap, [k \in {"env", "team"} |-> IF k = "env" THEN "prod" ELSE "storage"] }

\* tftags.IgnoreConfig
NoIgnoreConfig == [nil |-> TRUE, Keys |-> {}, KeyPrefixes |-> {}]
IgnoreTagsConfigs ==
    { NoIgnoreConfig, [nil |-> FALSE, Keys |-> {"owner"}, KeyPrefixes |-> {"tmp:"}] }

----------------------------------------------------------------------------
(* Collaborators of the handler that live in other files of the provider *)

\* sdkdiag.AppendErrorf(diags, format, err): one more error diagnostic whose
\* summary is the formatted message
AppendErrorf(ds, prefix, err) ==
    Append(ds, [Severity |-> "Error", Summary |-> prefix \o err])

\* newStorageVirtualMachineFilterList: one StorageVirtualMachineFilter per
\* filter block of the set
newStorageVirtualMachineFilterList(s) ==
    LET blocks == SetToSeq(s)
    IN  Slice([ i \in 1 .. Len(blocks) |->
                  [Name |-> blocks[i].name, Values |-> blocks[i].values] ])

\* what DescribeStorageVirtualMachines returns for a request
Matches(in, R) ==
    { s \in R :
        /\ in.StorageVirtualMachineIds.nil
             \/ \E i \in 1 .. Len(in.StorageVirtualMachineIds.elems) :
                    in.StorageVirtualMachineIds.elems[i] = StringValue(s.StorageVirtualMachineId)
        /\ \A i \in 1 .. Len(in.Filters.elems) :
               in.Filters.elems[i].Name = "file-system-id"
                   => StringValue(s.FileSystemId) \in in.Filters.elems[i].Values }

\* findStorageVirtualMachine: the one match, or an error when the API call
\* fails or the request matches zero or more than one machine
findStorageVirtualMachine(in, R, apiFails) ==
    LET m == Matches(in, R)
    IN  IF apiFails THEN [svm |-> {}, err |-> "InternalServerError"]
        ELSE IF m = {} THEN [svm |-> {}, err |-> "empty result"]
        ELSE IF Cardinality(m) > 1 THEN [svm |-> {}, err |-> "too many results"]
        ELSE [svm |-> m, err |-> ""]

\* flattenSvmActiveDirectoryConfiguration
flattenSvmActiveDirectoryConfiguration(ad) ==
    IF ad.nil THEN Slice(<< >>)
    ELSE Slice(<< [netbios_name |-> StringValue(ad.NetBiosName)] >>)

\* flattenSvmEndpoints
flattenSvmEndpoints(ep) ==
    IF ep.nil THEN Slice(<< >>)
    ELSE Slice(<< [management |-> << [dns_name |-> StringValue(ep.Management)] >>] >>)

\* KeyValueTags(ctx, []*fsx.Tag): the tags as a map, a later duplicate key winning
KeyValueTags(tags) ==
    LET keys == { tags[i].Key : i \in 1 .. Len(tags) }
        last(k) == CHOOSE i \in 1 .. Len(tags) :
                       /\ tags[i].Key = k
                       /\ \A j \in 1 .. Len(tags) : tags[j].Key = k => j <= i
    IN  [ k \in keys |-> tags[last(k)].Value ]

\* the tags of a map whose keys are in keep
Restrict(m, keep) == [ k \in keep |-> m[k] ]

\* KeyValueTags.IgnoreAWS: drops the keys with the AWS-reserved prefix
AWSTagKeyPrefix == "aws:"
IgnoreAWS(m) == Restrict(m, { k \in DOMAIN m : ~HasPrefix(k, AWSTagKeyPrefix) })

\* a key the ignore configuration matches: one of its keys, or one of its prefixes
IgnoredBy(k, ic) ==
    /\ ~ic.nil
    /\ \/ k \in ic.Keys
       \/ \E p \in ic.KeyPrefixes : HasPrefix(k, p)

\* KeyValueTags.IgnoreConfig: drops the keys the ignore configuration matches
IgnoreConfig(m, ic) == Restrict(m, { k \in DOMAIN m : ~IgnoredBy(k, ic) })

\* KeyValueTags.RemoveDefaultConfig: drops the tags the default-tags
\* configuration holds with the same value; adds nothing
RemoveDefaultConfig(m, dc) ==
    Restrict(m, { k \in DOMAIN m : ~(k \in DOMAIN dc /\ dc[k] = m[k]) })

----------------------------------------------------------------------------
(* dataSourceONTAPStorageVirtualMachineRead *)

\* d.GetOk("id"): ok is false for the zero value, the id not being given
GetOkId(id) == [v |-> id, ok |-> id # ""]

\* BuildInput, forgetting the filters when an id is given
BuildInputIdOnly(id, filter) ==
    LET filters == newStorageVirtualMachineFilterList(filter)
    IN  IF GetOkId(id).ok
        THEN [ StorageVirtualMachineIds |-> Slice(<< GetOkId(id).v >>), Filters |-> NilSlice ]
        ELSE [ StorageVirtualMachineIds |-> NilSlice,
               Filters |-> IF Len(filters.elems) = 0 THEN NilSlice ELSE filters ]

\* BuildInput, sending an empty filter list as it is
BuildInputKeepsEmptyFilters(id, filter) ==
    [ StorageVirtualMachineIds |->
          IF GetOkId(id).ok THEN Slice(<< GetOkId(id).v >>) ELSE NilSlice,
      Filters |-> newStorageVirtualMachineFilterList(filter) ]

\* the describe request: StorageVirtualMachineIds only when the id is given,
\* Filters from the filter set, reset to nil when it holds no filter
BuildInput(id, filter) ==
    LET ids == IF GetOkId(id).ok THEN Slice(<< GetOkId(id).v >>) ELSE NilSlice
        filters == newStorageVirtualMachineFilterList(filter)
    IN  [ StorageVirtualMachineIds |-> ids,
          Filters |-> IF Len(filters.elems) = 0 THEN NilSlice ELSE filters ]

\* flattenLifecycleTransitionReason, returning a nil list for a nil reason and
\* dropping an empty message
flattenLifecycleTransitionReasonNil(rs) ==
    IF rs.nil THEN NilSlice
    ELSE LET m == IF StringValue(rs.Message) # ""
                  THEN [ k \in {"message"} |-> StringValue(rs.Message) ]
                  ELSE EmptyMap
         IN  Slice(<< m >>)

\* flattenLifecycleTransitionReason: an empty list for nil, else a one-element
\* list holding a map that has the message key only when Message is set
flattenLifecycleTransitionReason(rs) ==
    IF rs.nil THEN Slice(<< >>)
    ELSE LET m == IF ~rs.Message.nil
                  THEN [ k \in {"message"} |-> StringValue(rs.Message) ]
                  ELSE EmptyMap
         IN  Slice(<< m >>)

\* TagsOut, without the IgnoreAWS and IgnoreConfig steps
TagsOutUnfiltered(svm, ic, dc) == RemoveDefaultConfig(KeyValueTags(svm.Tags), dc)

\* TagsOut, without the RemoveDefaultConfig step
TagsOutKeepsDefaults(svm, ic, dc) == IgnoreConfig(IgnoreAWS(KeyValueTags(svm.Tags)), ic)

\* the map handed to d.Set("tags", ...)
TagsOut(svm, ic, dc) ==
    LET tags == IgnoreConfig(IgnoreAWS(KeyValueTags(svm.Tags)), ic)
    IN  RemoveDefaultConfig(tags, dc)

\* one d.Set call: its key, its value, and whether evaluating the value
\* dereferences a nil pointer
SetCall(k, v, p) == [key |-> k, val |-> v, panics |-> p]

\* SetCalls, setting name twice and uuid never
SetCallsNameTwice(svm, ic, dc) ==
    << SetCall("active_directory_configuration",
               flattenSvmActiveDirectoryConfiguration(svm.ActiveDirectoryConfiguration), FALSE),
       SetCall("arn", svm.ResourceARN, FALSE),
       SetCall("creation_time", FormatRFC3339(svm.CreationTime.v), svm.CreationTime.nil),
       SetCall("endpoints", flattenSvmEndpoints(svm.Endpoints), FALSE),
       SetCall("file_system_id", svm.FileSystemId, FALSE),
       SetCall("lifecycle_status", svm.Lifecycle, FALSE),
       SetCall("lifecycle_transition_reason",
               flattenLifecycleTransitionReason(svm.LifecycleTransitionReason), FALSE),
       SetCall("name", svm.Name, FALSE),
       SetCall("subtype", svm.Subtype, FALSE),
       SetCall("name", svm.UUID, FALSE),
       SetCall("tags", TagsOut(svm, ic, dc), FALSE) >>

\* the d.Set calls of the handler, in order
SetCalls(svm, ic, dc) ==
    << SetCall("active_directory_configuration",
               flattenSvmActiveDirectoryConfiguration(svm.ActiveDirectoryConfiguration), FALSE),
       SetCall("arn", svm.ResourceARN, FALSE),
       \* svm.CreationTime.Format: a method of time.Time called through a
       \* *time.Time, which dereferences the pointer
       SetCall("creation_time", FormatRFC3339(svm.CreationTime.v), svm.CreationTime.nil),
       SetCall("endpoints", flattenSvmEndpoints(svm.Endpoints), FALSE),
       SetCall("file_system_id", svm.FileSystemId, FALSE),
       SetCall("lifecycle_status", svm.Lifecycle, FALSE),
       SetCall("lifecycle_transition_reason",
               flattenLifecycleTransitionReason(svm.LifecycleTransitionReason), FALSE),
       SetCall("name", svm.Name, FALSE),
       SetCall("subtype", svm.Subtype, FALSE),
       SetCall("uuid", svm.UUID, FALSE),
       SetCall("tags", TagsOut(svm, ic, dc), FALSE) >>

\* the error d.Set returns when the value does not fit the schema
SetError == "invalid value for the schema"

RECURSIVE SetAllNoReturn(_, _, _, _)
\* SetAll, reporting a failed d.Set without returning
SetAllNoReturn(calls, i, failAt, writes) ==
    IF i > Len(calls)
    THEN [writes |-> writes, failed |-> "", ret |-> "diags", diags |-> << >>]
    ELSE IF calls[i].panics
    THEN [writes |-> writes, failed |-> "", ret |-> "panic", diags |-> << >>]
    ELSE IF calls[i].key = failAt /\ failAt \in CheckedAttributes
    THEN LET rest == SetAllNoReturn(calls, i + 1, "", writes)
         IN  [ rest EXCEPT !.failed = calls[i].key,
                           !.diags = AppendErrorf(<< >>, "setting " \o calls[i].key \o ": ", SetError) ]
    ELSE SetAllNoReturn(calls, i + 1, failAt,
                        Append(writes, [key |-> calls[i].key, val |-> calls[i].val]))

RECURSIVE SetAll(_, _, _, _)
\* runs the calls from the i-th on; failAt is the attribute whose d.Set fails
\* ("" when none does).  Only the checked calls look at the error.
SetAll(calls, i, failAt, writes) ==
    IF i > Len(calls)
    THEN [writes |-> writes, failed |-> "", ret |-> "diags", diags |-> << >>]
    ELSE IF calls[i].panics
    THEN [writes |-> writes, failed |-> "", ret |-> "panic", diags |-> << >>]
    ELSE IF calls[i].key = failAt /\ failAt \in CheckedAttributes
    THEN [writes |-> writes, failed |-> calls[i].key, ret |-> "diags",
          diags |-> AppendErrorf(<< >>, "setting " \o calls[i].key \o ": ", SetError)]
    ELSE SetAll(calls, i + 1, failAt,
                Append(writes, [key |-> calls[i].key, val |-> calls[i].val]))

\* ReadLookupFailed, with d.SetId called before the error is looked at
ReadLookupFailedAfterSetId(err) ==
    [ id |-> cfgId, writes |-> Append(dWrites, [key |-> "id", val |-> cfgId]),
      failed |-> "", ret |-> "diags",
      diags |-> AppendErrorf(<< >>, "reading FSx ONTAP Storage Virtual Machine: ", err) ]

\* the lookup failed: one error diagnostic, nothing written
ReadLookupFailed(err) ==
    [ id |-> dId, writes |-> dWrites, failed |-> "", ret |-> "diags",
      diags |-> AppendErrorf(<< >>, "reading FSx ONTAP Storage Virtual Machine: ", err) ]

\* ReadFound, undoing its writes when a d.Set fails
ReadFoundRollback(svm, failAt) ==
    LET id == StringValue(svm.StorageVirtualMachineId)
        r == SetAll(SetCalls(svm, ignoreTagsConfig, defaultTagsConfig), 1, failAt,
                    Append(dWrites, [key |-> "id", val |-> id]))
    IN  IF r.failed # ""
        THEN [ id |-> dId, writes |-> dWrites, failed |-> r.failed,
               ret |-> r.ret, diags |-> r.diags ]
        ELSE [ id |-> id, writes |-> r.writes, failed |-> r.failed,
               ret |-> r.ret, diags |-> r.diags ]

\* the lookup returned svm: d.SetId, then the d.Set calls
ReadFound(svm, failAt) ==
    LET id == StringValue(svm.StorageVirtualMachineId)
        r == SetAll(SetCalls(svm, ignoreTagsConfig, defaultTagsConfig), 1, failAt,
                    Append(dWrites, [key |-> "id", val |-> id]))
    IN  [ id |-> id, writes |-> r.writes, failed |-> r.failed,
          ret |-> r.ret, diags |-> r.diags ]

dataSourceONTAPStorageVirtualMachineRead ==
    /\ pc = "start"
    /\ \E apiFails \in BOOLEAN, failAt \in {""} \cup CheckedAttributes :
        LET in == BuildInput(cfgId, cfgFilter)
            res == findStorageVirtualMachine(in, remote, apiFails)
            out == IF res.err # "" THEN ReadLookupFailed(res.err)
                   ELSE ReadFound(CHOOSE s \in res.svm : TRUE, failAt)
        IN  /\ input' = in
            /\ lookupErr' = res.err
            /\ found' = res.svm
            /\ dId' = out.id
            /\ dWrites' = out.writes
            /\ setFailed' = out.failed
            /\ ret' = out.ret
            /\ diags' = out.diags
    /\ pc' = "done"
    /\ UNCHANGED << cfgId, cfgFilter, defaultTagsConfig, ignoreTagsConfig, remote >>

Init ==
    /\ cfgId \in ConfigIds
    /\ cfgFilter \in ConfigFilters
    /\ defaultTagsConfig \in DefaultTagsConfigs
    /\ ignoreTagsConfig \in IgnoreTagsConfigs
    /\ remote \in Remotes
    /\ pc = "start"
    /\ input = [StorageVirtualMachineIds |-> NilSlice, Filters |-> NilSlice]
    /\ lookupErr = ""
    /\ found = {}
    /\ dId = ""
    /\ dWrites = << >>
    /\ setFailed = ""
    /\ ret = "none"
    /\ diags = << >>

Next == dataSourceONTAPStorageVirtualMachineRead

Spec == Init /\ [][Next]_vars

----------------------------------------------------------------------------
(* Reading the outcome of an invocation *)

\* how many calls wrote the attribute k
Written(k) == Cardinality({ i \in 1 .. Len(dWrites) : dWrites[i].key = k })

\* the value the last write of k left
ValueOf(k) ==
    dWrites[CHOOSE i \in 1 .. Len(dWrites) :
                /\ dWrites[i].key = k
                /\ \A j \in 1 .. Len(dWrites) : dWrites[j].key = k => j <= i].val

\* the position of an attribute in the order of the d.Set calls
OrderOf(k) == CHOOSE i \in 1 .. Len(WriteOrder) : WriteOrder[i] = k

HasError(ds) == \E i \in 1 .. Len(ds) : ds[i].Severity = "Error"

\* the machine the lookup returned
Svm == CHOOSE s \in found : TRUE

\* the handler returned without any diagnostic
Succeeded == pc = "done" /\ ret = "diags" /\ diags = << >>

\* the remote tags of the found machine that are neither AWS-reserved nor
\* matched by the ignore configuration, as (key, value) pairs
KeptRemoteTags ==
    { << Svm.Tags[i].Key, Svm.Tags[i].Value >> : i \in
        { j \in 1 .. Len(Svm.Tags) :
            /\ ~HasPrefix(Svm.Tags[j].Key, "aws:")
            /\ ~IgnoredBy(Svm.Tags[j].Key, ignoreTagsConfig) } }

\* a map as its set of (key, value) pairs
Pairs(m) == { << k, m[k] >> : k \in DOMAIN m }

----------------------------------------------------------------------------
(* Claims *)

\* C1: whenever the lookup returns an error (the API call failed, or the
\* request matched zero or more than one machine), the handler returns
\* exactly one error diagnostic and the resource data is left as it was: no
\* identifier and no attribute is written.
C1_LookupErrorWritesNothing ==
    [][ lookupErr' # "" =>
          /\ ret' = "diags"
          /\ Len(diags') = 1 /\ HasError(diags')
          /\ HasPrefix(diags'[1].Summary, "reading FSx ONTAP Storage Virtual Machine: ")
          /\ dId' = dId
          /\ dWrites' = dWrites ]_vars

C1_Witness ==
    /\ pc = "done"
    /\ lookupErr = "too many results"
    /\ Cardinality(remote) > 1
    /\ HasError(diags)

\* C2: when the id is given, the request's StorageVirtualMachineIds is the
\* one-element list holding it, and every configured filter is in the same
\* request; when the id is not given, StorageVirtualMachineIds is nil.
C2_RequestRestrictedById ==
    pc = "done" =>
        /\ cfgId # "" =>
             /\ input.StorageVirtualMachineIds = Slice(<< cfgId >>)
             /\ \A f \in cfgFilter :
                    \E i \in 1 .. Len(input.Filters.elems) :
                        /\ input.Filters.elems[i].Name = f.name
                        /\ input.Filters.elems[i].Values = f.values
        /\ cfgId = "" => input.StorageVirtualMachineIds.nil

C2_Witness ==
    /\ pc = "done"
    /\ cfgId # ""
    /\ cfgFilter # {}
    /\ Len(input.StorageVirtualMachineIds.elems) = 1
    /\ Len(input.Filters.elems) > 0

\* C3: every invocation ends by returning a diagnostics list, whatever the
\* machine the lookup returned; none ends in a panic.
C3_NeverPanics == pc = "done" => ret = "diags"

\* C4: after a successful read, the tags map written to state holds no key
\* with the AWS-reserved prefix and no key the ignore configuration matches.
C4_NoReservedOrIgnoredTags ==
    Succeeded =>
        \A k \in DOMAIN ValueOf("tags") :
            /\ ~HasPrefix(k, "aws:")
            /\ ~(~ignoreTagsConfig.nil /\ k \in ignoreTagsConfig.Keys)
            /\ ~(~ignoreTagsConfig.nil /\ \E p \in ignoreTagsConfig.KeyPrefixes : HasPrefix(k, p))

C4_Witness ==
    /\ Succeeded
    /\ \E i \in 1 .. Len(Svm.Tags) : HasPrefix(Svm.Tags[i].Key, "aws:")
    /\ \E i \in 1 .. Len(Svm.Tags) : IgnoredBy(Svm.Tags[i].Key, ignoreTagsConfig)
    /\ DOMAIN ValueOf("tags") # {}

\* C5 as stated: after a successful read the identifier and every attribute
\* the schema declares have been written exactly once.
C5_EveryDeclaredAttributeOnce ==
    Succeeded => \A a \in SchemaAttributes : Written(a) = 1

\* C5 as amended: after a successful read the identifier and every attribute
\* the schema declares, except the filter input, have been written exactly
\* once; filter is never written.
C5_EveryAttributeButFilterOnce ==
    Succeeded =>
        /\ \A a \in SchemaAttributes \ {"filter"} : Written(a) = 1
        /\ Written("filter") = 0
        /\ Len(dWrites) = Cardinality(SchemaAttributes) - 1

C5_Witness ==
    /\ Succeeded
    /\ found # {}
    /\ Written("id") = 1
    /\ Written("tags") = 1

C7_FlattenReasonIsList ==
    (pc = "done" /\ Written("lifecycle_transition_reason") > 0) =>
        LET rs == Svm.LifecycleTransitionReason
            out == ValueOf("lifecycle_transition_reason")
        IN  /\ ~out.nil
            /\ rs.nil => Len(out.elems) = 0
            /\ (~rs.nil /\ ~rs.Message.nil) =>
                  /\ Len(out.elems) = 1
                  /\ DOMAIN out.elems[1] = {"message"}
                  /\ out.elems[1]["message"] = rs.Message.v

C7_Witness ==
    /\ pc = "done"
    /\ Written("lifecycle_transition_reason") = 1
    /\ ~Svm.LifecycleTransitionReason.nil
    /\ ~Svm.LifecycleTransitionReason.Message.nil
    /\ Svm.LifecycleTransitionReason.Message.v # ""
    /\ Len(ValueOf("lifecycle_transition_reason").elems) = 1

\* C8: the request's Filters is nil, not an empty list, when the filter
\* attribute is empty, and holds exactly one entry per configured filter
\* otherwise.
C8_EmptyFiltersOmitted ==
    pc = "done" =>
        /\ cfgFilter = {} => input.Filters = NilSlice
        /\ cfgFilter # {} =>
             /\ ~input.Filters.nil
             /\ Len(input.Filters.elems) = Cardinality(cfgFilter)
             /\ \A f \in cfgFilter :
                    \E i \in 1 .. Len(input.Filters.elems) :
                        /\ input.Filters.elems[i].Name = f.name
                        /\ input.Filters.elems[i].Values = f.values

C8_Witness ==
    /\ pc = "done"
    /\ cfgFilter = {}
    /\ input.Filters.nil
    /\ lookupErr = ""

\* C9: when the d.Set of a checked attribute fails, the handler returns with
\* one error diagnostic prefixed "setting <field>: ", and neither that
\* attribute nor any later one of the write order is written.
C9_FailFastOnSetError ==
    setFailed # "" =>
        /\ setFailed \in CheckedAttributes
        /\ pc = "done" /\ ret = "diags"
        /\ Len(diags) = 1 /\ HasError(diags)
        /\ HasPrefix(diags[1].Summary, "setting " \o setFailed \o ": ")
        /\ \A j \in OrderOf(setFailed) .. Len(WriteOrder) : Written(WriteOrder[j]) = 0

C9_Witness ==
    /\ pc = "done"
    /\ setFailed = "endpoints"
    /\ HasError(diags)
    /\ Written("creation_time") = 1

\* C10: a failed d.Set is not rolled back: the identifier is already the
\* found machine's id, and every attribute before the failing one in the
\* write order has been written once and keeps its value.
C10_NoRollbackOnSetError ==
    (setFailed # "" /\ HasError(diags)) =>
        /\ dId = StringValue(Svm.StorageVirtualMachineId)
        /\ Written("id") = 1 /\ ValueOf("id") = dId
        /\ \A j \in 1 .. (OrderOf(setFailed) - 1) : Written(WriteOrder[j]) = 1
        /\ OrderOf(setFailed) > OrderOf("arn") => ValueOf("arn") = Svm.ResourceARN
        /\ OrderOf(setFailed) > OrderOf("uuid") => ValueOf("uuid") = Svm.UUID

C10_Witness ==
    /\ pc = "done"
    /\ setFailed = "tags"
    /\ HasError(diags)
    /\ dId # ""
    /\ Written("uuid") = 1
    /\ Written("tags") = 0

====
